---------------------------- MODULE Spec2Model ----------------------------
(***************************************************************************)
(* Model of client/src/components/Result.jsx: the Map component (location  *)
(* selector: place search with debounce, coordinate entry, report          *)
(* submission) and the Result component (report renderer: coordinate       *)
(* resolution, place-name resolution).                                     *)
(*                                                                         *)
(* Numbers are integers in units of 1e-6 degree.  A JavaScript value is a  *)
(* record [t, n, s]: t its type, n its numeric value, s its text.          *)
(***************************************************************************)
EXTENDS Integers, Sequences, FiniteSets, TLC

VARIABLES
  \* ---- Map component (selector screen) ----
  screen,            \* which route component is mounted: "selector" | "result"
  position,          \* useState position: <<lat, lng>>
  mapCenter,         \* useState mapCenter
  mapZoom,           \* useState mapZoom
  latitude,          \* useState latitude (text of the number input)
  longitude,         \* useState longitude
  loading,           \* useState loading
  error,             \* useState error
  searchInput,       \* useState searchInput
  suggestions,       \* useState suggestions
  searchLoading,     \* useState searchLoading
  searchTimeoutRef,  \* useRef: id of the last timer armed, 0 for null
  timers,            \* the browser's pending timeouts: set of [id, value]
  nextTimerId,       \* next id setTimeout returns
  issued,            \* every place-search request sent so far (its query), in order
  fired,             \* the text of every debounce timer whose callback ran, in order
  searchPending,     \* indices of issued whose promise has not settled
  reportReqs,        \* report requests in flight: sequence of request bodies
  navState,          \* location.state handed to navigate('/result', ...)
  \* ---- Result component (renderer screen) ----
  data,              \* location.state?.data
  selectedArea,      \* location.state?.selectedArea || {}
  locationName,      \* useState locationName
  nameLoading,       \* useState nameLoading
  effectRan,         \* whether the mount effect has run for the current deps
  geoReqs,           \* reverse-geocoding requests in flight: sequence of [lat, lon]
  geoIssued,         \* number of reverse-geocoding requests sent so far
  view               \* what the last render produced

selVars == <<screen, position, mapCenter, mapZoom, latitude, longitude, loading,
             error, searchInput, suggestions, searchLoading, searchTimeoutRef,
             timers, nextTimerId, issued, fired, searchPending, reportReqs,
             navState>>
renVars == <<data, selectedArea, locationName, nameLoading, effectRan, geoReqs,
             geoIssued, view>>
vars == <<selVars, renVars>>

(***************************************************************************)
(* JavaScript values.                                                      *)
(***************************************************************************)
Undefined == [t |-> "undefined", n |-> 0, s |-> ""]
Null == [t |-> "null", n |-> 0, s |-> ""]
Num(k) == [t |-> "number", n |-> k, s |-> ""]
NaN == [t |-> "nan", n |-> 0, s |-> ""]
Str(x) == [t |-> "string", n |-> 0, s |-> x]
\* the decimal text of the number k, e.g. "12.9716"
NumStr(k) == [t |-> "numstr", n |-> k, s |-> ""]
Deg(d) == d * 1000000
\* a plain object, e.g. {}
Obj == [t |-> "object", n |-> 0, s |-> ""]
\* a string given by its sequence of characters
Text(chars) == [t |-> "text", n |-> 0, s |-> "", chars |-> chars]
\* v is null or undefined: v?.x is undefined
Nullish(v) == v.t \in {"undefined", "null"}

\* JavaScript truthiness: undefined, null, NaN, 0 and "" are falsy
Truthy(v) ==
  CASE v.t = "undefined" -> FALSE
    [] v.t = "null" -> FALSE
    [] v.t = "nan" -> FALSE
    [] v.t = "number" -> v.n # 0
    [] v.t = "string" -> v.s # ""
    [] v.t = "text" -> v.chars # <<>>
    [] OTHER -> TRUE

\* a || b
Or(a, b) == IF Truthy(a) THEN a ELSE b

\* Number.prototype.toFixed(4): the nearest multiple of 1e-4, the larger on a tie
ToFixed4(k) == NumStr(((k + 50) \div 100) * 100)

\* parseFloat: a number converts to its text and back; a numeric text gives its
\* value; any other text gives NaN
ParseFloat(v) ==
  CASE v.t = "number" -> Num(v.n)
    [] v.t = "numstr" -> Num(v.n)
    [] OTHER -> NaN

IsNaN(v) == v.t = "nan"


(***************************************************************************)
(* The environment of the selector: what the user types and clicks, what   *)
(* the place-search provider and the report service answer.                *)
(***************************************************************************)
\* the most search-text changes of one run
MaxChanges == 3

SearchTexts == {"a", "ab", "abcd"}
LatitudeTexts == {Str(""), NumStr(Deg(95))}
LongitudeTexts == {Str(""), Str("abc")}
\* a click on the map; a map panned around the world reports longitudes past 180
ClickPoints == {<<Deg(45) + 60, Deg(200)>>}

\* one record of the provider's answer to the query q
PlaceFor(q) ==
  [place_id |-> Len(q), display_name |-> q \o ", Town",
   lat |-> NumStr(Deg(40 + Len(q)) + 70), lon |-> NumStr(Deg(-70 - Len(q)) - 70),
   type |-> "city", importance |-> 1]

\* response.data of the place search for q: some places, or none
SearchData(q) == {<<PlaceFor(q)>>, <<>>}

\* the report service's answers: a payload, or an error
EmptyPair == [latitude |-> Undefined, longitude |-> Undefined]
\* the metric groups of data.report and the fields the cards read from each
GroupNames ==
  {"solar_potential", "afforestation_feasibility", "water_harvesting",
   "windmill_feasibility"}
\* the field of group g the cards test with includes('High'), includes('Medium')
ClassField(g) == IF g = "solar_potential" THEN "result" ELSE "feasibility"
GroupFields(g) ==
  {ClassField(g)} \cup
    CASE g = "solar_potential" -> {"average_radiation"}
      [] g = "afforestation_feasibility" ->
           {"green_cover_percent", "barren_land_percent",
            "afforestation_potential_percent"}
      [] g = "water_harvesting" ->
           {"rainfall_score", "soil_score", "slope_score", "water_harvesting_score"}
      [] g = "windmill_feasibility" ->
           {"wind_score", "slope_score", "land_score", "windmill_feasibility_score"}
MetricFields == UNION {{<<g, f>> : f \in GroupFields(g)} : g \in GroupNames}
\* a report none of whose groups is defined
NoGroups == [g \in GroupNames |-> Undefined]

\* data: report holds the latitude and longitude of data.report, groups the
\* metric groups of data.report
Payload(c, r, la, lo, pn) ==
  [coordinates |-> c, report |-> r, latitude |-> la, longitude |-> lo, place_name |-> pn,
   recommendations |-> Undefined, groups |-> NoGroups]
ReportPayloads ==
  {Payload(EmptyPair, EmptyPair, Undefined, Undefined, Undefined),
   Payload(EmptyPair, EmptyPair, Num(Deg(10)), Num(Deg(20)), Str("Riverside Park"))}
\* err of the catch block: with or without a response, whose body may have a detail
ReportErrors ==
  {[hasResponse |-> FALSE, detail |-> Undefined]}
    \cup {[hasResponse |-> TRUE, detail |-> d] :
            d \in {Undefined, Str(""), Str("Invalid coordinates")}}

(***************************************************************************)
(* Map component: constants of the code.                                   *)
(***************************************************************************)
LatMin == -90
LatMax == 90
LngMin == -180
LngMax == 180
\* mutation of MinQueryLen: an off-by-one minimum
MinQueryLenOne == 2 - 1
MinQueryLen == 2
DefaultZoom == 13
Bengaluru == <<12971599, 77594566>>
ValidationMessage == "Please enter valid latitude (-90 to 90) and longitude (-180 to 180)."
FallbackMessage == "Failed to fetch sustainability report."
NoLocationState == [data |-> Undefined, selectedArea |-> Undefined]

\* {}: an object none of whose fields is defined
EmptyArea == [latitude |-> Undefined, longitude |-> Undefined, placeName |-> Undefined]
\* let coords = {latitude: null, longitude: null}
NullPair == [latitude |-> Null, longitude |-> Null]
\* no metric value is displayed
NoMetrics == <<>>
NotRendered ==
  [rendered |-> FALSE, noData |-> FALSE, threw |-> FALSE, coords |-> NullPair,
   placeLine |-> "", coordLine |-> FALSE, map |-> FALSE, sections |-> <<>>,
   metrics |-> NoMetrics]

\* the Result component before its first render
ResultUnmounted ==
  /\ data = Undefined
  /\ selectedArea = EmptyArea
  /\ locationName = ""
  /\ nameLoading = FALSE
  /\ effectRan = FALSE
  /\ geoReqs = <<>>
  /\ geoIssued = 0
  /\ view = NotRendered

\* Map(): the useState / useRef initial values
Init ==
  /\ screen = "selector"
  /\ position = Bengaluru
  /\ mapCenter = Bengaluru
  /\ mapZoom = DefaultZoom
  /\ latitude = Str("")
  /\ longitude = Str("")
  /\ loading = FALSE
  /\ error = ""
  /\ searchInput = ""
  /\ suggestions = <<>>
  /\ searchLoading = FALSE
  /\ searchTimeoutRef = 0
  /\ timers = {}
  /\ nextTimerId = 1
  /\ issued = <<>>
  /\ fired = <<>>
  /\ searchPending = {}
  /\ reportReqs = <<>>
  /\ navState = NoLocationState
  /\ ResultUnmounted

Mounted == screen = "selector"

\* mutation of ClearSearchTimeout: the previous timer is not cancelled
KeepSearchTimeout(ts) == ts

\* clearTimeout(searchTimeoutRef.current) when the ref is set
ClearSearchTimeout(ts) ==
  IF searchTimeoutRef # 0 THEN {t \in ts : t.id # searchTimeoutRef} ELSE ts

\* handleSearchChange: the input's text changed to value
HandleSearchChange(value) ==
  /\ Mounted
  /\ value # searchInput
  /\ nextTimerId <= MaxChanges
  /\ searchInput' = value
  /\ timers' = ClearSearchTimeout(timers) \cup {[id |-> nextTimerId, value |-> value]}
  /\ searchTimeoutRef' = nextTimerId
  /\ nextTimerId' = nextTimerId + 1
  /\ UNCHANGED <<screen, position, mapCenter, mapZoom, latitude, longitude, loading,
                 error, suggestions, searchLoading, issued, fired, searchPending,
                 reportReqs, navState, renVars>>

\* searchPlaces(query) up to its await: TRUE when it sends a request
SearchSends(query) == ~(query = "" \/ Len(query) < MinQueryLen)

\* mutation of DebounceFire: the callback does nothing for a short text
DebounceFireShortIgnored(t) ==
  /\ t \in timers
  /\ timers' = timers \ {t}
  /\ fired' = Append(fired, t.value)
  /\ IF Len(t.value) >= MinQueryLen
       THEN /\ issued' = Append(issued, t.value)
            /\ searchPending' = searchPending \cup {Len(issued) + 1}
            /\ searchLoading' = IF Mounted THEN TRUE ELSE searchLoading
            /\ UNCHANGED suggestions
       ELSE UNCHANGED <<suggestions, issued, searchPending, searchLoading>>
  /\ UNCHANGED <<screen, position, mapCenter, mapZoom, latitude, longitude, loading,
                 error, searchInput, searchTimeoutRef, nextTimerId, reportReqs,
                 navState, renVars>>

\* the callback of the debounce timer t runs
DebounceFire(t) ==
  /\ t \in timers
  /\ timers' = timers \ {t}
  /\ fired' = Append(fired, t.value)
  /\ IF Len(t.value) >= MinQueryLen
       THEN IF SearchSends(t.value)
              THEN /\ issued' = Append(issued, t.value)
                   /\ searchPending' = searchPending \cup {Len(issued) + 1}
                   /\ searchLoading' = IF Mounted THEN TRUE ELSE searchLoading
                   /\ UNCHANGED suggestions
              ELSE /\ suggestions' = IF Mounted THEN <<>> ELSE suggestions
                   /\ UNCHANGED <<issued, searchPending, searchLoading>>
       ELSE /\ suggestions' = IF Mounted THEN <<>> ELSE suggestions
            /\ UNCHANGED <<issued, searchPending, searchLoading>>
  /\ UNCHANGED <<screen, position, mapCenter, mapZoom, latitude, longitude, loading,
                 error, searchInput, searchTimeoutRef, nextTimerId, reportReqs,
                 navState, renVars>>

\* response.data.map(place => ...): the suggestion of a place record
FormatSuggestion(place) ==
  [id |-> place.place_id, name |-> place.display_name,
   lat |-> ParseFloat(place.lat), lon |-> ParseFloat(place.lon),
   type |-> place.type, importance |-> place.importance]

FormatSuggestions(places) == [i \in 1..Len(places) |-> FormatSuggestion(places[i])]

\* whether the completion of request i may write the suggestions
SearchApplies(i) == Mounted

\* searchPlaces after its await: request i resolved with response.data = places
SearchResolve(i, places) ==
  /\ i \in searchPending
  /\ places \in SearchData(issued[i])
  /\ searchPending' = searchPending \ {i}
  /\ IF SearchApplies(i)
       THEN /\ suggestions' = IF Len(places) > 0 THEN FormatSuggestions(places) ELSE <<>>
            /\ searchLoading' = FALSE
       ELSE UNCHANGED <<suggestions, searchLoading>>
  /\ UNCHANGED <<screen, position, mapCenter, mapZoom, latitude, longitude, loading,
                 error, searchInput, searchTimeoutRef, timers, nextTimerId, issued, fired,
                 reportReqs, navState, renVars>>

\* searchPlaces after its await: request i failed (the catch block)
SearchReject(i) ==
  /\ i \in searchPending
  /\ searchPending' = searchPending \ {i}
  /\ IF SearchApplies(i)
       THEN /\ suggestions' = <<>>
            /\ searchLoading' = FALSE
       ELSE UNCHANGED <<suggestions, searchLoading>>
  /\ UNCHANGED <<screen, position, mapCenter, mapZoom, latitude, longitude, loading,
                 error, searchInput, searchTimeoutRef, timers, nextTimerId, issued, fired,
                 reportReqs, navState, renVars>>

\* the loading overlay covers the map and the suggestion list
PointerBlocked == loading

\* handleSuggestionClick(suggestion)
HandleSuggestionClick(k) ==
  /\ Mounted
  /\ ~PointerBlocked
  /\ k \in 1..Len(suggestions)
  /\ LET suggestion == suggestions[k]
         coords == <<suggestion.lat.n, suggestion.lon.n>>
     IN /\ searchInput' = suggestion.name
        /\ suggestions' = <<>>
        /\ mapCenter' = coords
        /\ mapZoom' = DefaultZoom
        /\ position' = coords
        /\ latitude' = ToFixed4(coords[1])
        /\ longitude' = ToFixed4(coords[2])
  /\ UNCHANGED <<screen, loading, error, searchLoading, searchTimeoutRef, timers,
                 nextTimerId, issued, fired, searchPending, reportReqs, navState, renVars>>

\* handleMapClick(newPosition)
HandleMapClick(newPosition) ==
  /\ Mounted
  /\ ~PointerBlocked
  /\ position' = newPosition
  /\ latitude' = ToFixed4(newPosition[1])
  /\ longitude' = ToFixed4(newPosition[2])
  /\ searchInput' = ""
  /\ UNCHANGED <<screen, mapCenter, mapZoom, loading, error, suggestions,
                 searchLoading, searchTimeoutRef, timers, nextTimerId, issued, fired,
                 searchPending, reportReqs, navState, renVars>>

\* onChange of the latitude input
SetLatitude(v) ==
  /\ Mounted
  /\ v # latitude
  /\ latitude' = v
  /\ UNCHANGED <<screen, position, mapCenter, mapZoom, longitude, loading, error,
                 searchInput, suggestions, searchLoading, searchTimeoutRef, timers,
                 nextTimerId, issued, fired, searchPending, reportReqs, navState, renVars>>

\* onChange of the longitude input
SetLongitude(v) ==
  /\ Mounted
  /\ v # longitude
  /\ longitude' = v
  /\ UNCHANGED <<screen, position, mapCenter, mapZoom, latitude, loading, error,
                 searchInput, suggestions, searchLoading, searchTimeoutRef, timers,
                 nextTimerId, issued, fired, searchPending, reportReqs, navState, renVars>>


\* mutation of SubmitDisabled: the button is never disabled
SubmitNeverDisabled == FALSE

\* the submit button is rendered disabled={loading}
SubmitDisabled == loading

\* the number handleSubmit parses from a text field, or from the marker when the
\* field is empty
SubmitLat == ParseFloat(Or(latitude, Num(position[1])))
SubmitLng == ParseFloat(Or(longitude, Num(position[2])))

\* mutation of Rejects: the upper bounds are not tested
RejectsLowerOnly(lat, lng) ==
  \/ IsNaN(lat)
  \/ IsNaN(lng)
  \/ lat.n < Deg(LatMin)
  \/ lng.n < Deg(LngMin)

\* the validation of handleSubmit: TRUE when the pair is rejected
Rejects(lat, lng) ==
  \/ IsNaN(lat)
  \/ IsNaN(lng)
  \/ lat.n < Deg(LatMin)
  \/ lat.n > Deg(LatMax)
  \/ lng.n < Deg(LngMin)
  \/ lng.n > Deg(LngMax)

\* handleSubmit up to its await
HandleSubmit ==
  IF Rejects(SubmitLat, SubmitLng)
    THEN /\ error' = ValidationMessage
         /\ loading' = FALSE
         /\ UNCHANGED reportReqs
    ELSE /\ error' = ""
         /\ loading' = TRUE
         /\ reportReqs' = Append(reportReqs,
                                 [latitude |-> SubmitLat.n, longitude |-> SubmitLng.n])

\* the user activates the submit control; a disabled button submits nothing
Submit ==
  /\ Mounted
  /\ IF SubmitDisabled
       THEN UNCHANGED <<error, loading, reportReqs>>
       ELSE HandleSubmit
  /\ UNCHANGED <<screen, position, mapCenter, mapZoom, latitude, longitude,
                 searchInput, suggestions, searchLoading, searchTimeoutRef, timers,
                 nextTimerId, issued, fired, searchPending, navState, renVars>>

\* the state handleSubmit hands to navigate('/result', {state})
NavigateState(responseData) == [data |-> responseData, selectedArea |-> Undefined]

\* mutation of UnmountCleanup: no cleanup is registered
UnmountLeavesTimer(ts) == ts

\* the cleanup of the unmount effect
UnmountCleanup(ts) == ClearSearchTimeout(ts)

\* Result(): location.state?.selectedArea || {}
AreaOf(state) ==
  IF state.selectedArea # Undefined /\ state.selectedArea # Null
    THEN state.selectedArea
    ELSE EmptyArea

\* handleSubmit after its await: the report request resolved; the Map component
\* unmounts and the Result component mounts with the navigation state
ReportResolve(responseData) ==
  /\ Len(reportReqs) > 0
  /\ responseData \in ReportPayloads
  /\ reportReqs' = Tail(reportReqs)
  /\ navState' = NavigateState(responseData)
  /\ screen' = "result"
  /\ timers' = UnmountCleanup(timers)
  /\ data' = navState'.data
  /\ selectedArea' = AreaOf(navState')
  /\ UNCHANGED <<position, mapCenter, mapZoom, latitude, longitude, loading, error,
                 searchInput, suggestions, searchLoading, searchTimeoutRef,
                 nextTimerId, issued, fired, searchPending, locationName, nameLoading,
                 effectRan, geoReqs, geoIssued, view>>

\* err.response?.data?.detail
ErrorDetail(err) == IF err.hasResponse THEN err.detail ELSE Undefined

\* mutation of ErrorShown: the server's detail is ignored
ErrorShownGeneric(err) == FallbackMessage

\* the message the catch block of handleSubmit shows
ErrorShown(err) == Or(ErrorDetail(err), Str(FallbackMessage)).s

\* handleSubmit after its await: the report request failed (the catch block)
ReportReject(err) ==
  /\ Len(reportReqs) > 0
  /\ err \in ReportErrors
  /\ reportReqs' = Tail(reportReqs)
  /\ error' = ErrorShown(err)
  /\ loading' = FALSE
  /\ UNCHANGED <<screen, position, mapCenter, mapZoom, latitude, longitude,
                 searchInput, suggestions, searchLoading, searchTimeoutRef, timers,
                 nextTimerId, issued, fired, searchPending, navState, renVars>>

Next ==
  \/ \E value \in SearchTexts : HandleSearchChange(value)
  \/ \E t \in timers : DebounceFire(t)
  \/ \E i \in searchPending, places \in {<<>>} \cup {<<PlaceFor(q)>> : q \in SearchTexts} :
       SearchResolve(i, places)
  \/ \E i \in searchPending : SearchReject(i)
  \/ \E k \in 1..Len(suggestions) : HandleSuggestionClick(k)
  \/ \E p \in ClickPoints : HandleMapClick(p)
  \/ \E v \in LatitudeTexts : SetLatitude(v)
  \/ \E v \in LongitudeTexts : SetLongitude(v)
  \/ Submit
  \/ \E d \in ReportPayloads : ReportResolve(d)
  \/ \E e \in ReportErrors : ReportReject(e)

Spec == Init /\ [][Next]_vars


(***************************************************************************)
(* Result component (report renderer).                                     *)
(***************************************************************************)
Sentinel == "Selected Location"
FetchingText == "Fetching location..."

HasData == data # Undefined

(***************************************************************************)
(* parseRecommendations.  A text is a sequence of characters (strings of   *)
(* length 1), so that its lines can be split, trimmed and sliced.          *)
(***************************************************************************)
\* the characters String.prototype.trim removes (of those the texts use)
IsSpace(c) == c \in {" ", "\t"}

RECURSIVE TrimStart(_)
TrimStart(l) == IF l # <<>> /\ IsSpace(Head(l)) THEN TrimStart(Tail(l)) ELSE l
RECURSIVE TrimEnd(_)
TrimEnd(l) ==
  IF l # <<>> /\ IsSpace(l[Len(l)]) THEN TrimEnd(SubSeq(l, 1, Len(l) - 1)) ELSE l
\* line.trim()
Trim(l) == TrimEnd(TrimStart(l))

\* text.split('\n'): the empty text gives one empty line
RECURSIVE SplitLines(_)
SplitLines(text) ==
  LET idx == {i \in 1..Len(text) : text[i] = "\n"}
  IN IF idx = {} THEN <<text>>
     ELSE LET i == CHOOSE k \in idx : \A j \in idx : k <= j
          IN <<SubSeq(text, 1, i - 1)>> \o SplitLines(SubSeq(text, i + 1, Len(text)))

StartsWith(l, p) == Len(l) >= Len(p) /\ SubSeq(l, 1, Len(p)) = p
EndsWith(l, p) == Len(l) >= Len(p) /\ SubSeq(l, Len(l) - Len(p) + 1, Len(l)) = p
\* line.includes(p), p not empty
Includes(l, p) == \E i \in 1..(Len(l) - Len(p) + 1) : SubSeq(l, i, i + Len(p) - 1) = p
\* line.slice(k)
Slice(l, k) == SubSeq(l, k + 1, Len(l))

\* line.replace(/\*\*/g, ''): every "**", scanning from the left
RECURSIVE RemoveEmphasis(_)
RemoveEmphasis(l) ==
  IF l = <<>> THEN <<>>
  ELSE IF StartsWith(l, <<"*", "*">>) THEN RemoveEmphasis(Slice(l, 2))
  ELSE <<Head(l)>> \o RemoveEmphasis(Tail(l))

\* s.replace(':', ''): the first ":" only
RemoveFirstColon(l) ==
  LET idx == {i \in 1..Len(l) : l[i] = ":"}
  IN IF idx = {} THEN l
     ELSE LET i == CHOOSE k \in idx : \A j \in idx : k <= j
          IN SubSeq(l, 1, i - 1) \o SubSeq(l, i + 1, Len(l))

AIRecommendations == <<"A", "I", " ", "R", "e", "c", "o", "m", "m", "e", "n", "d", "a", "t", "i", "o", "n", "s">>

\* text.split('\n').map(line => line.trim()).filter(line => line)
LinesOf(text) ==
  LET NonEmpty(l) == l # <<>>
      split == SplitLines(text)
  IN SelectSeq([i \in 1..Len(split) |-> Trim(split[i])], NonEmpty)

\* lines 159-161: the title line, skipped at index 0 only
IsTitle(lines, i) == i = 1 /\ Includes(lines[i], AIRecommendations)
\* line 163
IsHeader(line) == StartsWith(line, <<"*", "*">>) /\ EndsWith(line, <<":", "*", "*">>)
\* line 168
TitleOf(line) == RemoveFirstColon(RemoveEmphasis(line))
\* line 175
ItemText(line) ==
  IF StartsWith(line, <<"*">>) \/ StartsWith(line, <<"-">>)
    THEN Trim(Slice(line, 2))
    ELSE line

\* mutation of Pushes: the current section is pushed whatever it holds
PushesAny(cur) == cur # <<>>

\* lines 164 and 182: currentSection && currentSection.items.length > 0; the
\* current section is a sequence of length 0 (null) or 1
Pushes(cur) == cur # <<>> /\ Len(cur[1].items) > 0

\* lines.forEach from index i on, then the push of the last section
RECURSIVE ParseFrom(_, _, _, _)
ParseFrom(lines, i, sections, cur) ==
  LET pushed == IF Pushes(cur) THEN Append(sections, cur[1]) ELSE sections
  IN IF i > Len(lines) THEN pushed
     ELSE IF IsTitle(lines, i) THEN ParseFrom(lines, i + 1, sections, cur)
     ELSE IF IsHeader(lines[i])
       THEN ParseFrom(lines, i + 1, pushed,
                      <<[title |-> TitleOf(lines[i]), items |-> <<>>]>>)
     ELSE IF cur # <<>> /\ lines[i] # <<>> /\ ItemText(lines[i]) # <<>>
       THEN ParseFrom(lines, i + 1, sections,
                      <<[cur[1] EXCEPT !.items = Append(@, ItemText(lines[i]))]>>)
     ELSE ParseFrom(lines, i + 1, sections, cur)

parseRecommendations(text) == ParseFrom(LinesOf(text), 1, <<>>, <<>>)


\* mutation of ResolveCoords: the sources are tested for truthiness, so that a
\* source with a zero field is skipped
ResolveCoordsTruthy(d, area) ==
  IF d = Undefined
    THEN NullPair
    ELSE IF Truthy(area.latitude) /\ Truthy(area.longitude)
      THEN [latitude |-> area.latitude, longitude |-> area.longitude]
    ELSE IF Truthy(d.coordinates.latitude) /\ Truthy(d.coordinates.longitude)
      THEN d.coordinates
    ELSE IF Truthy(d.report.latitude) /\ Truthy(d.report.longitude)
      THEN [latitude |-> d.report.latitude, longitude |-> d.report.longitude]
    ELSE IF Truthy(d.latitude) /\ Truthy(d.longitude)
      THEN [latitude |-> d.latitude, longitude |-> d.longitude]
    ELSE NullPair

\* lines 25-49: the coordinate the render resolves from selectedArea and data
ResolveCoords(d, area) ==
  IF d = Undefined
    THEN NullPair
    ELSE IF area.latitude # Undefined /\ area.longitude # Undefined
      THEN [latitude |-> area.latitude, longitude |-> area.longitude]
    ELSE IF d.coordinates.latitude # Undefined /\ d.coordinates.longitude # Undefined
      THEN d.coordinates
    ELSE IF d.report.latitude # Undefined /\ d.report.longitude # Undefined
      THEN [latitude |-> d.report.latitude, longitude |-> d.report.longitude]
    ELSE IF d.latitude # Undefined /\ d.longitude # Undefined
      THEN [latitude |-> d.latitude, longitude |-> d.longitude]
    ELSE NullPair

\* lines 191-194: displayPlace
DisplayPlace(d, area, locName) ==
  LET fallbackName == Or(Str(locName), Str(Sentinel))
  IN IF Truthy(area.placeName) /\ area.placeName # Str(Sentinel)
       THEN area.placeName.s
       ELSE Or(d.place_name, fallbackName).s

\* report?.g?.f
FieldOf(groups, g, f) == IF Nullish(groups[g]) THEN Undefined ELSE groups[g].f[f]
\* {v || 'N/A'}
MetricShown(v) == Or(v, Str("N/A"))
\* v?.includes('High') calls a method only strings have (of the values here)
IncludesThrows(v) == ~Nullish(v) /\ v.t \notin {"string", "text"}
\* React refuses a plain object as a child
ChildThrows(v) == v.t = "object"
\* line 188: parseRecommendations(recommendations || '') calls text.split
SplitThrows(v) == Truthy(v) /\ v.t # "text"

\* Result() throws for the payload d instead of returning
RenderThrows(d) ==
  \/ SplitThrows(d.recommendations)
  \/ \E g \in GroupNames : IncludesThrows(FieldOf(d.groups, g, ClassField(g)))
  \/ \E m \in MetricFields : ChildThrows(MetricShown(FieldOf(d.groups, m[1], m[2])))

\* what Result() returns for the given props and state; a render that throws
\* displays nothing
RenderOf(d, area, locName, nLoading) ==
  LET coords == ResolveCoords(d, area)
      shown == coords.latitude # Null /\ coords.longitude # Null
  IN IF d = Undefined
       THEN [rendered |-> TRUE, noData |-> TRUE, threw |-> FALSE, coords |-> coords,
             placeLine |-> "", coordLine |-> FALSE, map |-> FALSE, sections |-> <<>>,
             metrics |-> NoMetrics]
     ELSE IF RenderThrows(d)
       THEN [rendered |-> TRUE, noData |-> FALSE, threw |-> TRUE, coords |-> coords,
             placeLine |-> "", coordLine |-> FALSE, map |-> FALSE, sections |-> <<>>,
             metrics |-> NoMetrics]
       ELSE [rendered |-> TRUE, noData |-> FALSE, threw |-> FALSE, coords |-> coords,
             placeLine |-> IF nLoading THEN FetchingText
                           ELSE DisplayPlace(d, area, locName),
             coordLine |-> shown, map |-> shown,
             sections |-> IF Truthy(d.recommendations)
                            THEN parseRecommendations(d.recommendations.chars)
                            ELSE parseRecommendations(<<>>),
             metrics |-> [m \in MetricFields |->
                            MetricShown(FieldOf(d.groups, m[1], m[2]))]]

\* the first render of the mounted component
Render ==
  /\ screen = "result"
  /\ ~view.rendered
  /\ view' = RenderOf(data, selectedArea, locationName, nameLoading)
  /\ UNCHANGED <<selVars, data, selectedArea, locationName, nameLoading, effectRan,
                 geoReqs, geoIssued>>

\* getLocationNameFromCoordinates(lat, lng) up to its await: TRUE when it sends
GeocodeSends(lat, lng) == ~(~Truthy(lat) \/ ~Truthy(lng))

\* the condition under which the effect calls getLocationNameFromCoordinates
EffectCalls(d, area) ==
  LET coords == ResolveCoords(d, area)
      existingName == Or(area.placeName, d.place_name)
  IN /\ d # Undefined
     /\ ~Truthy(existingName) \/ existingName = Str(Sentinel)
     /\ Truthy(coords.latitude) /\ Truthy(coords.longitude)

\* mutation of EffectDue: an effect without a dependency array, run after
\* every render
EffectEveryRender == TRUE

\* line 129: the dependencies [coords.latitude, coords.longitude,
\* selectedArea?.placeName, data] are functions of location.state alone, so they
\* differ from the previous render's only at the first render
EffectDue == ~effectRan

\* the useEffect of lines 119-129 runs after the render that changed its deps
RunEffect ==
  /\ view.rendered
  /\ ~view.threw
  /\ EffectDue
  /\ effectRan' = TRUE
  /\ LET coords == ResolveCoords(data, selectedArea)
     IN IF EffectCalls(data, selectedArea)
             /\ GeocodeSends(coords.latitude, coords.longitude)
          THEN /\ nameLoading' = TRUE
               /\ geoReqs' = Append(geoReqs, [lat |-> coords.latitude,
                                              lon |-> coords.longitude])
               /\ geoIssued' = geoIssued + 1
          ELSE UNCHANGED <<nameLoading, geoReqs, geoIssued>>
  /\ view' = RenderOf(data, selectedArea, locationName, nameLoading')
  /\ UNCHANGED <<selVars, data, selectedArea, locationName>>

\* the label lines 76-105 extract from response.data
ExtractName(rd) ==
  LET address == rd.address
      first ==
        IF Truthy(address.neighbourhood) THEN address.neighbourhood.s
        ELSE IF Truthy(address.suburb) THEN address.suburb.s
        ELSE IF Truthy(address.town) THEN address.town.s
        ELSE IF Truthy(address.city) THEN address.city.s
        ELSE IF Truthy(address.county) THEN address.county.s
        ELSE IF Truthy(address.state) THEN address.state.s
        ELSE ""
      withContext ==
        IF first # "" /\ Truthy(address.city) /\ first # address.city.s
          THEN first \o ", " \o address.city.s
        ELSE IF first # "" /\ Truthy(address.state) /\ first # address.state.s
          THEN first \o ", " \o address.state.s
        ELSE first
  IN IF withContext = "" /\ Len(rd.display_name) > 0
       THEN rd.display_name[1]
       ELSE withContext

\* reading address.neighbourhood of a response without an address throws
ExtractThrows(rd) == rd.address = Undefined

\* getLocationNameFromCoordinates after its await: the request resolved with
\* response.data = rd
GeoResolve(rd) ==
  /\ Len(geoReqs) > 0
  /\ geoReqs' = Tail(geoReqs)
  /\ locationName' =
       IF rd = Undefined \/ ExtractThrows(rd) THEN locationName
       ELSE IF ExtractName(rd) # "" THEN ExtractName(rd)
       ELSE locationName
  /\ nameLoading' = FALSE
  /\ view' = RenderOf(data, selectedArea, locationName', nameLoading')
  /\ UNCHANGED <<selVars, data, selectedArea, effectRan, geoIssued>>

\* Result() is called again with the same location.state (the router or a
\* parent re-rendered): the output is recomputed, the dependencies of the
\* effect are unchanged and it is not run
Rerender ==
  /\ screen = "result"
  /\ view.rendered
  /\ ~view.threw
  /\ view' = RenderOf(data, selectedArea, locationName, nameLoading)
  /\ UNCHANGED <<selVars, data, selectedArea, locationName, nameLoading, effectRan,
                 geoReqs, geoIssued>>

\* getLocationNameFromCoordinates after its await: the request failed
GeoReject ==
  /\ Len(geoReqs) > 0
  /\ geoReqs' = Tail(geoReqs)
  /\ nameLoading' = FALSE
  /\ view' = RenderOf(data, selectedArea, locationName, nameLoading')
  /\ UNCHANGED <<selVars, data, selectedArea, locationName, effectRan, geoIssued>>

(***************************************************************************)
(* The environment of the renderer: the location.state it is mounted with  *)
(* and the reverse-geocoding provider's answers.                           *)
(***************************************************************************)
\* the latitude/longitude fields of source k: absent, one defined, both defined,
\* a zero latitude, both null
PairsOf(k) ==
  {[latitude |-> Undefined, longitude |-> Undefined],
   [latitude |-> Num(Deg(10 + k)), longitude |-> Undefined],
   [latitude |-> Undefined, longitude |-> Num(Deg(20 + k))],
   [latitude |-> Num(Deg(10 + k)), longitude |-> Num(Deg(20 + k))],
   [latitude |-> Num(0), longitude |-> Num(Deg(20 + k))],
   [latitude |-> Null, longitude |-> Null]}

AreaNames == {Undefined, Str(Sentinel), Str("Central Park")}
PayloadNames == {Undefined, Str(Sentinel), Str("Riverside Park")}

SelectedAreas ==
  {[latitude |-> p.latitude, longitude |-> p.longitude, placeName |-> n] :
     p \in PairsOf(1), n \in AreaNames}

RendererPayloads ==
  {Payload(c, r, t.latitude, t.longitude, pn) :
     c \in PairsOf(2), r \in PairsOf(3), t \in PairsOf(4), pn \in PayloadNames}

\* a metric group whose value fields all hold v and whose class field holds c
GroupWith(g, v, c) ==
  [t |-> "object", n |-> 0, s |-> "",
   f |-> [x \in GroupFields(g) |-> IF x = ClassField(g) THEN c ELSE v]]
AllGroups(v, c) == [g \in GroupNames |-> GroupWith(g, v, c)]
\* the shapes of data.report: no group, every group with every field, groups
\* without fields, zero values, one group only, a class field that is a number,
\* a value field that is an object
ReportGroups ==
  {NoGroups,
   AllGroups(Num(5), Str("High Potential")),
   AllGroups(Undefined, Undefined),
   AllGroups(Num(0), Str("Low")),
   [NoGroups EXCEPT !["solar_potential"] =
      GroupWith("solar_potential", Num(5), Str("Medium"))],
   AllGroups(Num(5), Num(3)),
   AllGroups(Obj, Str("High Potential"))}
SampleText == <<"A", "I", " ", "R", "e", "c", "o", "m", "m", "e", "n", "d", "a", "t", "i", "o", "n", "s", "\n", "*", "*", "S", "u", "n", ":", "*", "*", "\n", "*", " ", "o", "n", "e">>
\* the shapes of data.recommendations: absent, null, empty, a text, a number,
\* an object
RecommendationValues == {Undefined, Null, Text(<<>>), Text(SampleText), Num(7), Obj}

Shaped(p, rec, g) == [p EXCEPT !.recommendations = rec, !.groups = g]
ShapedPayloads ==
  {Shaped(Payload(EmptyPair, r, Undefined, Undefined, pn), rec, g) :
     r \in {EmptyPair, NullPair, [latitude |-> Num(Deg(13)), longitude |-> Num(Deg(23))]},
     pn \in {Undefined, Str("Riverside Park")},
     rec \in RecommendationValues,
     g \in ReportGroups}

Address(n, su, t, c, co, st) ==
  [neighbourhood |-> n, suburb |-> su, town |-> t, city |-> c, county |-> co,
   state |-> st]
NoAddress == Address(Undefined, Undefined, Undefined, Undefined, Undefined, Undefined)

\* response.data of the reverse geocoding; display_name is given by its
\* comma-delimited segments
GeoResponses ==
  {Undefined,
   [address |-> Address(Str("Soho"), Undefined, Undefined, Str("London"), Undefined,
                        Str("England")),
    display_name |-> <<"Soho", " London", " England">>],
   [address |-> Address(Undefined, Undefined, Undefined, Str("London"), Undefined,
                        Str("England")),
    display_name |-> <<"London", " England">>],
   [address |-> NoAddress, display_name |-> <<"Baker Street", " London">>],
   [address |-> NoAddress, display_name |-> <<>>],
   [address |-> Undefined, display_name |-> <<"Baker Street", " London">>],
   [address |-> Undefined, display_name |-> <<>>]}

\* the Result component mounted with any location.state
RendererInit ==
  /\ screen = "result"
  /\ position = Bengaluru
  /\ mapCenter = Bengaluru
  /\ mapZoom = DefaultZoom
  /\ latitude = Str("")
  /\ longitude = Str("")
  /\ loading = FALSE
  /\ error = ""
  /\ searchInput = ""
  /\ suggestions = <<>>
  /\ searchLoading = FALSE
  /\ searchTimeoutRef = 0
  /\ timers = {}
  /\ nextTimerId = 1
  /\ issued = <<>>
  /\ fired = <<>>
  /\ searchPending = {}
  /\ reportReqs = <<>>
  /\ \E d \in RendererPayloads \cup ShapedPayloads \cup {Undefined}, a \in SelectedAreas :
       /\ navState = [data |-> d, selectedArea |-> a]
       /\ data = d
       /\ selectedArea = AreaOf(navState)
  /\ locationName = ""
  /\ nameLoading = FALSE
  /\ effectRan = FALSE
  /\ geoReqs = <<>>
  /\ geoIssued = 0
  /\ view = NotRendered

RendererNext ==
  \/ Render
  \/ Rerender
  \/ RunEffect
  \/ \E rd \in GeoResponses : GeoResolve(rd)
  \/ GeoReject

RendererSpec == RendererInit /\ [][RendererNext]_vars


(***************************************************************************)
(* The recommendation texts the parser is applied to.                      *)
(***************************************************************************)
MaxLines == 4
\* the lines the texts are made of: whitespace only, the title, a header, a header with an inner colon,
\* a marker and one space, a marker and no space, a marker, two spaces and a trailing space,
\* no marker, a marker alone
RawLines ==
  {<<" ", " ">>,
   <<"A", "I", " ", "R", "e", "c", "o", "m", "m", "e", "n", "d", "a", "t", "i", "o", "n", "s">>,
   <<"*", "*", "S", "u", "n", ":", "*", "*">>,
   <<"*", "*", "A", ":", "B", ":", "*", "*">>,
   <<"*", " ", "o", "n", "e">>,
   <<"*", "t", "w", "o">>,
   <<"-", " ", " ", "s", "i", "x", " ">>,
   <<"p", "l", "a", "i", "n">>,
   <<"-">>}
\* the texts of n lines
RECURSIVE TextsOf(_)
TextsOf(n) ==
  IF n = 1 THEN RawLines
  ELSE {l \o <<"\n">> \o t : l \in RawLines, t \in TextsOf(n - 1)}
\* the empty text and the texts of 1 to MaxLines lines
ParserTexts == {<<>>} \cup UNION {TextsOf(n) : n \in 1..MaxLines}

\* the Result component mounted with a payload that has a name, no coordinate
\* and the recommendations text
ParserInit ==
  /\ screen = "result"
  /\ position = Bengaluru
  /\ mapCenter = Bengaluru
  /\ mapZoom = DefaultZoom
  /\ latitude = Str("")
  /\ longitude = Str("")
  /\ loading = FALSE
  /\ error = ""
  /\ searchInput = ""
  /\ suggestions = <<>>
  /\ searchLoading = FALSE
  /\ searchTimeoutRef = 0
  /\ timers = {}
  /\ nextTimerId = 1
  /\ issued = <<>>
  /\ fired = <<>>
  /\ searchPending = {}
  /\ reportReqs = <<>>
  /\ \E text \in ParserTexts :
       /\ data = Shaped(Payload(EmptyPair, EmptyPair, Undefined, Undefined,
                                Str("Riverside Park")), Text(text), NoGroups)
       /\ navState = [data |-> data, selectedArea |-> Undefined]
  /\ selectedArea = AreaOf(navState)
  /\ locationName = ""
  /\ nameLoading = FALSE
  /\ effectRan = FALSE
  /\ geoReqs = <<>>
  /\ geoIssued = 0
  /\ view = NotRendered

ParserNext ==
  \/ Render
  \/ Rerender
  \/ RunEffect

ParserSpec == ParserInit /\ [][ParserNext]_vars


\* the promise of the report request settles: the service answers or the
\* request fails
ReportSettles ==
  \/ \E d \in ReportPayloads : ReportResolve(d)
  \/ \E e \in ReportErrors : ReportReject(e)

FairSpec == Init /\ [][Next]_vars /\ WF_vars(ReportSettles)

(***************************************************************************)
(* Steps of the selector, told by what they change.                        *)
(***************************************************************************)
\* handleSearchChange ran: a new timer was armed
ChangeStep == nextTimerId' = nextTimerId + 1
\* the callback of timer t ran
FireStep(t) == t \in timers /\ Len(fired') = Len(fired) + 1 /\ fired'[Len(fired')] = t.value
\* the promise of search request i settled
SettleStep(i) == i \in searchPending /\ i \notin searchPending'
\* request i is superseded: a newer request was sent after it
Superseded(i) == i < Len(issued)
LongEnough(text) == Len(text) >= 2

(***************************************************************************)
(* C1..C10                                                                 *)
(***************************************************************************)

\* C2 (as stated): the result of a superseded search request never updates the
\* suggestions, so that they end up reflecting the newest request's result
\* whatever the order in which the requests resolve.
C2_StaleResultDiscarded ==
  [][\A i \in searchPending :
       SettleStep(i) /\ Superseded(i) => suggestions' = suggestions]_vars

\* C3: at most one report request is in flight in every reachable state, and no
\* step taken while loading is true issues a report request.
C3_SingleReportInFlight ==
  /\ [](Len(reportReqs) <= 1)
  /\ [][loading => Len(reportReqs') <= Len(reportReqs)]_vars

\* C3 witness: a report request is in flight and the submit control is disabled.
C3_Witness == Len(reportReqs) = 1 /\ loading /\ Mounted

\* C4 (as stated): when the Result screen is entered after a successful report
\* request, the navigation state carries the response and a selected area whose
\* latitude and longitude are defined, which is the renderer's first source.
C4_CarriesSelectedArea ==
  screen = "result" =>
    /\ navState.data \in ReportPayloads
    /\ navState.selectedArea # Undefined
    /\ selectedArea.latitude # Undefined
    /\ selectedArea.longitude # Undefined

\* C5 (as stated): every burst of search-text changes ends with exactly one
\* search request, for the last text of the burst: each debounce timer that
\* fires sends one request for its text.
C5_OneRequestPerBurst ==
  [][\A t \in timers : FireStep(t) => issued' = Append(issued, t.value)]_vars

\* C5 (amended): at most one debounce timer is ever pending; a change of the
\* search text sends no request and leaves pending only the timer of the new
\* text; the timer that fires at the end of a burst sends exactly one request,
\* for the last text, when that text has at least 2 characters and none when it
\* is shorter; and no request is sent in any other step.
C5_BurstDebounce ==
  /\ [](Cardinality(timers) <= 1)
  /\ [][ChangeStep =>
          /\ issued' = issued
          /\ timers' = {[id |-> nextTimerId, value |-> searchInput']}]_vars
  /\ [][\A t \in timers : FireStep(t) =>
          issued' = IF LongEnough(t.value) THEN Append(issued, t.value) ELSE issued]_vars
  /\ [][issued' # issued => \E t \in timers : FireStep(t)]_vars

\* C5 witness: three changes arrived in one burst and its end sent one request,
\* for the last text.
C5_Witness ==
  /\ nextTimerId = 4
  /\ fired = <<"abcd">>
  /\ issued = <<"abcd">>
  /\ timers = {}

\* C6 (as stated): typing "a", letting the debounce period elapse, then typing
\* "ab" and letting it elapse has issued two search requests.
C6_TwoRequestsForAThenAb == fired = <<"a", "ab">> => Len(issued) = 2

\* C6 (amended): the search requests issued are, in order, the texts of the
\* elapsed debounce periods that have at least 2 characters: "ab" then "abcd"
\* issues two requests, "a" then "ab" issues one, for "ab".
C6_OneRequestPerLongPeriod == issued = SelectSeq(fired, LongEnough)

\* C6 witness: two debounce periods elapsed, each for a text of 2 characters or
\* more, and two requests were issued.
C6_Witness == fired = <<"ab", "abcd">> /\ issued = <<"ab", "abcd">>

\* C7 (as stated): a change of the search text to fewer than 2 characters
\* clears the suggestions in the same step and sends no request.
C7_ShortTextClearsAtChange ==
  [][ChangeStep /\ ~LongEnough(searchInput') =>
       suggestions' = <<>> /\ issued' = issued]_vars

\* C7 (amended): no request is ever issued for a text of fewer than 2
\* characters; the change of the text itself leaves the suggestions as they are;
\* they are cleared when the debounce timer armed by that change fires.
C7_ShortTextClearsAtFire ==
  /\ [](\A i \in 1..Len(issued) : LongEnough(issued[i]))
  /\ [][ChangeStep => suggestions' = suggestions]_vars
  /\ [][\A t \in timers : FireStep(t) /\ ~LongEnough(t.value) /\ Mounted =>
          suggestions' = <<>> /\ issued' = issued]_vars

\* C7 witness: a request was answered, then the timer of a short text fired and
\* the suggestions are empty.
C7_Witness ==
  /\ Len(fired) = 2
  /\ LongEnough(fired[1])
  /\ ~LongEnough(fired[2])
  /\ searchPending = {}
  /\ suggestions = <<>>
  /\ Mounted

\* the number a submit reads for a field, as a sequence of at most one value:
\* the field's text, or the marker when the field is empty; empty when the text
\* is no number
SubmittedValue(field, marker) ==
  IF field = Str("") THEN <<marker>>
  ELSE IF field.t = "numstr" THEN <<field.n>>
  ELSE <<>>
InRange(lat, lng) ==
  /\ lat >= -90 * 1000000 /\ lat <= 90 * 1000000
  /\ lng >= -180 * 1000000 /\ lng <= 180 * 1000000
ValidSubmit ==
  LET lat == SubmittedValue(latitude, position[1])
      lng == SubmittedValue(longitude, position[2])
  IN Len(lat) = 1 /\ Len(lng) = 1 /\ InRange(lat[1], lng[1])

\* C8: a submit whose latitude or longitude is no number or is out of range
\* issues no report request, shows the validation message and leaves loading
\* false; every report request in flight carries an in-range pair.
C8_SubmitValidation ==
  /\ [](\A i \in 1..Len(reportReqs) :
          InRange(reportReqs[i].latitude, reportReqs[i].longitude))
  /\ [][Submit /\ ~SubmitDisabled /\ ~ValidSubmit =>
          /\ reportReqs' = reportReqs
          /\ error' = ValidationMessage
          /\ loading' = FALSE]_vars
  /\ [][Len(reportReqs') > Len(reportReqs) => ValidSubmit]_vars

\* C8 witness: a submit of latitude 95 was rejected.
C8_Witness ==
  /\ latitude = NumStr(Deg(95))
  /\ error = ValidationMessage
  /\ ~loading
  /\ reportReqs = <<>>

\* what the claim says a failed report request shows: the error body's detail
\* when it has a (non-empty) one, the generic message otherwise
ClaimedError(err) ==
  IF err.hasResponse /\ err.detail.t = "string" /\ err.detail.s # ""
    THEN err.detail.s
    ELSE "Failed to fetch sustainability report."

\* C9: a failed report request shows the server's detail when the error body
\* has one and the generic message otherwise, clears loading and stays on the
\* selector; a report request in flight leads to the Result screen or to the
\* selector with loading false.
C9_ReportFailure ==
  /\ [][\A e \in ReportErrors : ReportReject(e) =>
          /\ error' = ClaimedError(e)
          /\ loading' = FALSE
          /\ screen' = "selector"
          /\ navState' = navState]_vars
  /\ (Len(reportReqs) > 0) ~> (screen = "result" \/ (Mounted /\ ~loading))

\* C9 witness: the server's detail is shown after a failed request.
C9_Witness ==
  /\ error = "Invalid coordinates"
  /\ ~loading
  /\ Mounted
  /\ reportReqs = <<>>


\* the four coordinate sources of the claim, in priority order; an absent
\* payload has none of its three
SourcesOf(d, area) ==
  <<[latitude |-> area.latitude, longitude |-> area.longitude],
    IF d = Undefined THEN EmptyPair ELSE d.coordinates,
    IF d = Undefined THEN EmptyPair ELSE d.report,
    IF d = Undefined THEN EmptyPair
    ELSE [latitude |-> d.latitude, longitude |-> d.longitude]>>
\* a source qualifies when both of its fields are defined; 0 and null are defined
Qualifies(p) == p.latitude.t # "undefined" /\ p.longitude.t # "undefined"
FirstQualifying(srcs) ==
  LET q == {i \in 1..Len(srcs) : Qualifies(srcs[i])}
  IN IF q = {} THEN [latitude |-> Null, longitude |-> Null]
     ELSE srcs[CHOOSE i \in q : \A j \in q : i <= j]

\* C1 (as stated): for every SelectedArea and every payload, present or absent,
\* the resolved coordinate is the first source with both fields defined, and
\* {null, null} when no source qualifies.
C1_FirstQualifyingAlways ==
  view.rendered => view.coords = FirstQualifying(SourcesOf(data, selectedArea))

\* C1 (amended): when a payload is present, the resolved coordinate is the first
\* source, in the order SelectedArea, payload.coordinates, payload.report,
\* payload top-level, with both fields defined (0 and null count as defined),
\* and {null, null} when no source qualifies; when the payload is absent it is
\* {null, null} whatever the SelectedArea holds.
C1_FirstQualifyingWithPayload ==
  view.rendered =>
    view.coords = IF data = Undefined THEN [latitude |-> Null, longitude |-> Null]
                  ELSE FirstQualifying(SourcesOf(data, selectedArea))

\* C1 witness: the first two sources have one field each, the third has a zero
\* latitude and is the one resolved.
C1_Witness ==
  /\ view.rendered
  /\ data # Undefined
  /\ selectedArea.latitude # Undefined /\ selectedArea.longitude = Undefined
  /\ data.coordinates.latitude = Undefined /\ data.coordinates.longitude # Undefined
  /\ data.report.latitude = Num(0)
  /\ Qualifies([latitude |-> data.latitude, longitude |-> data.longitude])
  /\ view.coords = data.report

\* a real name: a non-empty string other than the sentinel
RealName(v) == v.t = "string" /\ v.s # "" /\ v.s # "Selected Location"
\* the claim's display priority over the three name sources
ClaimedDisplay(d, area, fetched) ==
  IF RealName(area.placeName) THEN area.placeName.s
  ELSE IF RealName(d.place_name) THEN d.place_name.s
  ELSE IF fetched # "" THEN fetched
  ELSE "Selected Location"

\* C10 (as stated): once no reverse-geocoding request is outstanding, the name
\* displayed is the non-sentinel SelectedArea.placeName, else the payload's
\* place_name, else the fetched name, else the sentinel; the sentinel is never
\* displayed when one of the three sources holds a real name.
C10_DisplayPriority ==
  view.rendered /\ ~view.noData /\ effectRan /\ geoReqs = <<>> =>
    view.placeLine = ClaimedDisplay(data, selectedArea, locationName)

(***************************************************************************)
(* C11..C20                                                                *)
(***************************************************************************)
\* the coordinate the render resolved has a null field
Unresolved(coords) == coords.latitude = Null \/ coords.longitude = Null
\* a usable name is already known from the navigation state
NameKnown(d, area) ==
  RealName(area.placeName) \/ (d # Undefined /\ RealName(d.place_name))

\* C11 (as stated): no reverse-geocoding request is issued when a usable name
\* is already known (SelectedArea.placeName present and not the sentinel, or the
\* payload's place_name present), nor when the resolved coordinate is
\* unresolved.
C11_NoRequestWhenNameKnown ==
  geoIssued > 0 =>
    /\ ~NameKnown(data, selectedArea)
    /\ ~Unresolved(ResolveCoords(data, selectedArea))

\* C12: reverse geocoding is issued at most once for the key the component is
\* mounted with: the only step that issues a request is the first run of the
\* effect, with no request outstanding; once the effect has run, no step (a
\* re-render, the request's own loading and name updates) issues another.
C12_AtMostOncePerKey ==
  /\ [](geoIssued <= 1 /\ Len(geoReqs) <= 1)
  /\ [][geoIssued' # geoIssued =>
          ~effectRan /\ geoReqs = <<>> /\ geoIssued' = geoIssued + 1]_vars
  /\ [][effectRan => geoIssued' = geoIssued]_vars

\* C12 witness: the one request was issued and resolved with a name, the
\* component re-rendered with it, and no request is outstanding.
C12_Witness ==
  /\ geoIssued = 1
  /\ effectRan
  /\ geoReqs = <<>>
  /\ ~nameLoading
  /\ locationName # ""
  /\ view.placeLine = locationName

\* C13: teardown of the selector cancels the pending debounce timer: once the
\* Map component is unmounted no timer is pending, no debounce callback runs
\* and no search request is issued.
C13_TeardownCancelsTimer ==
  /\ [](screen = "result" => timers = {})
  /\ [][screen = "result" => fired' = fired /\ issued' = issued]_vars

\* C13 witness: the one timer ever armed was still pending when the component
\* was torn down; it is gone and its callback never ran.
C13_Witness ==
  /\ screen = "result"
  /\ nextTimerId = 2
  /\ searchTimeoutRef = 1
  /\ fired = <<>>
  /\ timers = {}

\* C14 (as stated): whatever the shape of the payload, with any of report,
\* recommendations, the coordinate fields and place_name absent or of an
\* unexpected type, the render completes without throwing; every absent metric
\* field is displayed as "N/A"; with no coordinate resolved, neither the
\* coordinate line nor the map is displayed.
C14_RenderRobust ==
  view.rendered /\ ~view.noData =>
    /\ ~view.threw
    /\ \A m \in MetricFields :
         FieldOf(data.groups, m[1], m[2]) = Undefined => view.metrics[m] = Str("N/A")
    /\ Unresolved(view.coords) => ~view.coordLine /\ ~view.map

\* the text of the recommendations and its trimmed, non-blank lines
RecText == data.recommendations.chars
RecLines == LinesOf(RecText)
\* the header lines the parser does not skip as the title
HeaderAt(i) == IsHeader(RecLines[i]) /\ ~IsTitle(RecLines, i)
Headers == {i \in 1..Len(RecLines) : HeaderAt(i)}
\* the headers directly followed by a line that is not a header
HeadersWithLines == {i \in Headers : i < Len(RecLines) /\ ~HeaderAt(i + 1)}
WhitespaceOnly(text) == \A i \in 1..Len(text) : IsSpace(text[i]) \/ text[i] = "\n"
Parsed == view.rendered /\ ~view.noData /\ ~view.threw /\ data.recommendations.t = "text"

\* C15: the parser never emits a section without items: every section of the
\* output has at least one item, each of them non-empty; a header followed by no
\* item line gives no section (there are at most as many sections as headers
\* followed by a non-header line); an empty or whitespace-only text gives the
\* empty sequence.
C15_NoEmptySection ==
  Parsed =>
    /\ \A k \in 1..Len(view.sections) :
         /\ Len(view.sections[k].items) >= 1
         /\ \A j \in 1..Len(view.sections[k].items) : view.sections[k].items[j] # <<>>
    /\ Len(view.sections) <= Cardinality(HeadersWithLines)
    /\ WhitespaceOnly(RecText) => view.sections = <<>>

\* C15 witness: of two headers the first is followed by no item line and the
\* second by one; the output has one section.
C15_Witness ==
  /\ Parsed
  /\ Len(RecLines) = 3
  /\ Headers = {1, 2}
  /\ Len(view.sections) = 1
  /\ Len(view.sections[1].items) = 1

\* the number of marker characters and spaces an item line starts with
RECURSIVE SpacesAt(_, _)
SpacesAt(l, i) == IF i <= Len(l) /\ IsSpace(l[i]) THEN 1 + SpacesAt(l, i + 1) ELSE 0
HasMarker(line) == StartsWith(line, <<"*">>) \/ StartsWith(line, <<"-">>)
\* the item text of the claim: one leading marker and the whitespace after it
\* removed, the rest verbatim; a line without a marker unchanged
ClaimedItem(line) ==
  IF HasMarker(line) THEN Slice(line, 1 + SpacesAt(line, 2)) ELSE line
\* the lines that follow a header and are not headers: the item lines
ItemLines ==
  SelectSeq([i \in 1..Len(RecLines) |->
               IF i \notin Headers /\ ~IsTitle(RecLines, i)
                    /\ \E h \in Headers : h < i
                 THEN RecLines[i] ELSE <<>>],
            LAMBDA l : l # <<>>)
\* the items of all sections of the output, in order
RECURSIVE ItemsOf(_)
ItemsOf(sections) ==
  IF sections = <<>> THEN <<>> ELSE Head(sections).items \o ItemsOf(Tail(sections))
NonEmptySeq(l) == l # <<>>

\* C16 (as stated): the text of an item is its line with a single leading
\* marker (* or -) and the whitespace that follows it removed, and the rest
\* verbatim, whether the marker is followed by zero, one or several whitespace
\* characters; a line without a marker is kept unchanged.
C16_ItemMarkerStripped ==
  Parsed =>
    ItemsOf(view.sections) =
      SelectSeq([i \in 1..Len(ItemLines) |-> ClaimedItem(ItemLines[i])], NonEmptySeq)

\* the title of the claim: the emphasis markers stripped, then the trailing
\* colon removed
ClaimedTitle(line) ==
  LET e == RemoveEmphasis(line)
  IN IF e # <<>> /\ e[Len(e)] = ":" THEN SubSeq(e, 1, Len(e) - 1) ELSE e
\* the section of header h: the lines up to the next header, as items
SectionAt(h) ==
  LET later == {j \in Headers : j > h}
      next == IF later = {} THEN Len(RecLines) + 1
              ELSE CHOOSE j \in later : \A k \in later : j <= k
  IN [title |-> ClaimedTitle(RecLines[h]),
      items |-> SelectSeq([i \in 1..(next - h - 1) |-> ItemText(RecLines[h + i])],
                          NonEmptySeq)]
HasItems(section) == section.items # <<>>
\* one section per header that has items, in the order of the headers
ClaimedSections ==
  SelectSeq([i \in 1..Len(RecLines) |->
               IF i \in Headers THEN SectionAt(i) ELSE [title |-> <<>>, items |-> <<>>]],
            HasItems)

\* C17 (as stated): over the trimmed, non-blank lines (line 0 skipped when it
\* contains "AI Recommendations"), the sections are in the order of their
\* headers, the title of each is its header with the emphasis markers stripped
\* and the trailing colon removed, its items are the non-header lines up to the
\* next header in their order, and the lines before the first header give
\* nothing.
C17_SectionsFollowHeaders == Parsed => view.sections = ClaimedSections

\* C18 (as stated): whenever neither SelectedArea.placeName nor the payload's
\* place_name yields a usable name and the resolved coordinate has both fields
\* non-null, exactly one reverse-geocoding request is issued for it once the
\* effect has run, also when its latitude or longitude is 0.
C18_GeocodesResolvedCoordinate ==
  effectRan /\ HasData /\ ~NameKnown(data, selectedArea)
    /\ ~Unresolved(ResolveCoords(data, selectedArea))
  => geoIssued = 1

\* the last thing done to the search machine was the selection of a suggestion
\* or a click on the map: the search text is a suggestion's label or empty (a
\* typed text is one of SearchTexts) and the marker has been moved
SelectionMade == searchInput \notin SearchTexts /\ position # Bengaluru

\* C19 (as stated): after a suggestion is selected or the map is clicked the
\* search machine is idle until the next change of the search text: the
\* suggestions are empty and stay empty and no search request is issued, even
\* with a debounce timer pending or a search request in flight at that moment.
C19_IdleAfterSelection ==
  /\ [](Mounted /\ SelectionMade => suggestions = <<>>)
  /\ [][Mounted /\ SelectionMade /\ searchInput' = searchInput =>
          issued' = issued]_vars

\* the label of the claim for the response data rd, "" when there is none: the
\* first present address component, with the city, else the state, appended
\* when it differs; without such a component, or without an address, the first
\* comma-delimited segment of the display name
ClaimedLabel(rd) ==
  LET a == IF rd.address = Undefined THEN NoAddress ELSE rd.address
      order == <<a.neighbourhood, a.suburb, a.town, a.city, a.county, a.state>>
      present == {i \in 1..6 : Truthy(order[i])}
      chosen == IF present = {} THEN ""
                ELSE order[CHOOSE i \in present : \A j \in present : i <= j].s
      suffix == IF Truthy(a.city) /\ a.city.s # chosen THEN ", " \o a.city.s
                ELSE IF Truthy(a.state) /\ a.state.s # chosen THEN ", " \o a.state.s
                ELSE ""
  IN IF chosen # "" THEN chosen \o suffix
     ELSE IF Len(rd.display_name) > 0 THEN rd.display_name[1]
     ELSE ""

\* C20 (as stated): when the request resolves, the fetched name becomes the
\* label of the response: the first present component of neighbourhood, suburb,
\* town, city, county, state with the city, else the state, appended when it
\* differs, and the first segment of the display name when no component gives a
\* label, also for a response without an address; when nothing is extracted or
\* the request fails the name is left as it was; in each case loading clears.
C20_LabelExtraction ==
  /\ [][\A rd \in GeoResponses : GeoResolve(rd) =>
          /\ locationName' = IF rd = Undefined \/ ClaimedLabel(rd) = ""
                               THEN locationName ELSE ClaimedLabel(rd)
          /\ ~nameLoading']_vars
  /\ [][GeoReject => locationName' = locationName /\ ~nameLoading']_vars

=============================================================================
